---- MODULE Spec2Model ----
(***************************************************************************)
(* A model of two pieces of ros2cli:                                       *)
(*                                                                         *)
(*   - ListVerb.main (ros2param/verb/list.py): discovery, client creation, *)
(*     the fan-out polling loop, the fan-in waits and the report loop;     *)
(*   - wait_for (ros2cli/helpers.py): the predicate polling loop;          *)
(*   - before_invocation and bind (ros2cli/helpers.py): the wrappers.      *)
(*                                                                         *)
(* Each has its own specification (Spec for ListVerb.main, SpecWait for    *)
(* wait_for, SpecHook for before_invocation, SpecBind for bind); the       *)
(* variables of the others stay at their initial values.                   *)
(***************************************************************************)
EXTENDS Integers, Sequences, FiniteSets, TLC

(***************************************************************************)
(* Bounds of the model.                                                    *)
(***************************************************************************)
\* Number of distinct process names in the universe.
MaxProcs == 2

\* wait_for: the longest predicate script, the largest timeout, the most
\* negative timeout, the largest period and the largest overrun of one sleep.
MaxScript == 3
MaxTimeout == 4
MaxNegTimeout == 2
MaxPeriod == 2
MaxOverrun == 1

\* before_invocation and bind: the longest argument list, the number of
\* argument values, the most required parameters of a hook, the largest
\* number of parameters of a bound function and the invocations of one
\* wrapper that are followed.
MaxArgs == 2
MaxVal == 2
MaxHookParams == 2
MaxArity == 3
MaxInvocations == 2

\* The sleeps the model follows before it stops following a loop that does
\* not end; more than any loop with a deadline takes.
MaxSleeps == MaxTimeout + 2

\* Python's None where the other values are process numbers.
None == 0

\* Process names.  A process is identified by a number; the order of the
\* numbers stands for the order of the NodeName keys.
Procs == 1..MaxProcs

(***************************************************************************)
(* Parameter names are strings, modelled as sequences of character codes.  *)
(***************************************************************************)
\* "x1", "y1" and the pattern "x", with x = 1, y = 2 and the digit 1 = 0.
NameX1 == <<1, 0>>
NameY1 == <<2, 0>>
NameX == <<1>>

\* The name lists a ListParameters response may carry (response.result.names),
\* in the order the remote process returned them.
ResponseNames == { <<NameY1, NameX1>>, <<NameY1>> }

\* The values of args.filter: None (the empty sequence here) or the one-element
\* list argparse builds for nargs=1.
FilterArgs == { <<>>, <<NameX>> }

VARIABLES
    \* ---- ListVerb.main ----
    pc,             \* position of main
    node_names,     \* the discovered processes, then the narrowed list (l.58, l.65)
    arg_node_name,  \* args.node_name resolved (l.61); None when not given
    service_names,  \* the discovered service endpoints (l.73)
    arg_filter,     \* args.filter
    param_type,     \* args.param_type
    clients,        \* keys of the clients dict, in insertion order (l.76)
    futures,        \* the futures dict: per process the state of its future (l.77)
    forder,         \* keys of the futures dict, in insertion order
    ready,          \* the clients whose service is ready right now (the graph)
    todo,           \* the rest of the list the for of l.87 iterates
    widx,           \* index of the for of l.104 into futures.values()
    rorder,         \* the rest of sorted(futures.keys()) of l.108
    stdout,         \* lines printed to sys.stdout
    stderr,         \* lines printed to sys.stderr
    ret,            \* the value main returned
    created,        \* per process, the number of create_client calls
    calls,          \* per process, the number of call_async calls
    timedOut,       \* the processes whose wait of l.105 ended by its timeout
    describes,      \* the call_describe_parameters calls made, in order
    \* ---- wait_for ----
    wpc,            \* position of wait_for
    wscript,        \* what predicate() answers, evaluation by evaluation
    wtimeout,       \* the timeout argument
    wperiod,        \* the period argument
    wnow,           \* the clock, time.time()
    wstart,         \* the clock when the deadline was computed (l.28)
    wdeadline,      \* the deadline (l.28)
    wevals,         \* the number of predicate() evaluations made
    wtest,          \* the value of the last evaluation by the while test (l.29)
    wlast,          \* the value of the last evaluation made
    wsleeps,        \* the number of time.sleep(period) calls
    wbroke,         \* whether the break of l.31 was taken
    wret,           \* the value wait_for returned
    \* ---- before_invocation ----
    hpc,            \* position of before_invocation, then of its wrapper
    hhook,          \* the hook: its parameters and whether it is a bound method
    hpass,          \* which wrapper was built: the one of l.67-69 or of l.72-74
    hargs,          \* the arguments of the current invocation of the wrapper
    hlog,           \* the calls the current invocation has made, in order
    hfunc,          \* what func returned in the current invocation
    hret,           \* how the current invocation ended
    hcount,         \* the number of invocations of the wrapper so far
    \* ---- bind ----
    bpc,            \* position of bind, then of its wrapper
    barity,         \* the number of positional parameters func declares
    bbound,         \* the positional arguments given to bind
    bboundkw,       \* the keyword argument given to bind: <<>> or <<value>>
    bcall,          \* the positional arguments of the current call of the wrapper
    bcallkw,        \* the keyword argument of the current call: <<>> or <<value>>
    bfargs,         \* what func received in its last call: << args, keyword >>
    bfcalls,        \* the number of calls func has received
    bret,           \* the outcome of the current call of the wrapper
    bcount          \* the number of calls of the wrapper so far

lvars == << pc, node_names, arg_node_name, service_names, arg_filter, param_type,
            clients, futures, forder, ready, todo, widx, rorder, stdout,
            stderr, ret, created, calls, timedOut, describes >>

wvars == << wpc, wscript, wtimeout, wperiod, wnow, wstart, wdeadline, wevals,
            wtest, wlast, wsleeps, wbroke, wret >>

hvars == << hpc, hhook, hpass, hargs, hlog, hfunc, hret, hcount >>

bvars == << bpc, barity, bbound, bboundkw, bcall, bcallkw, bfargs, bfcalls,
           bret, bcount >>

vars == << lvars, wvars, hvars, bvars >>

(***************************************************************************)
(* Helpers                                                                 *)
(***************************************************************************)
Range(s) == { s[i] : i \in 1..Len(s) }

\* The lists without repetition over a set S, up to its size.
ListsOf(S) ==
    { s \in UNION { [1..k -> S] : k \in 0..Cardinality(S) } :
        \A i, j \in 1..Len(s) : i # j => s[i] # s[j] }

\* [n for n in s if n in S]
RECURSIVE SelectIn(_, _)
SelectIn(s, S) ==
    IF s = <<>> THEN <<>>
    ELSE IF Head(s) \in S THEN <<Head(s)>> \o SelectIn(Tail(s), S)
         ELSE SelectIn(Tail(s), S)

\* Python's order on strings: by character code, a proper prefix first.
RECURSIVE StrLess(_, _)
StrLess(a, b) ==
    IF b = <<>> THEN FALSE
    ELSE IF a = <<>> THEN TRUE
    ELSE IF Head(a) # Head(b) THEN Head(a) < Head(b)
    ELSE StrLess(Tail(a), Tail(b))

\* The order of the keys of the futures dict.
NodeNameLess(a, b) == a < b

\* get_node_names: the lists of processes discovery may return.
DiscoveredLists == ListsOf(Procs)

\* f'{node_name.full_name}/list_parameters'
ServiceNameOf(p) == << p, "list_parameters" >>

\* get_service_names: the endpoints discovery may return.
Endpoints == { ServiceNameOf(p) : p \in Procs } \cup { << 1, "describe_parameters" >> }

\* Faulty variant of HasService: a client is created for every candidate.
HasServiceAlways(p, services) == TRUE

\* Whether the process's list_parameters endpoint was discovered (l.80-81).
HasService(p, services) == ServiceNameOf(p) \in services

\* Faulty variant of NodeNotFound: the test of l.63 is left out.
NodeNotFoundNever(names, target) == FALSE

\* l.62-63: a target was given and is not among the discovered processes.
NodeNotFound(names, target) == target # None /\ target \notin Range(names)

\* The narrowing of l.62-66: the whole list, or the entries equal to the target.
Narrowed(names, target) ==
    IF target # None THEN SelectIn(names, {target}) ELSE names

\* The clients dict after the loop of l.79-83.
ClientsFor(names, services) ==
    SelectIn(names, { p \in Procs : HasService(p, services) })

(***************************************************************************)
(* Futures.  A future is pending (no result, no exception), holds a        *)
(* response, or holds an exception; "none" marks a key absent from the     *)
(* futures dict.  The Future class belongs to rclpy; it is modelled as     *)
(* l.110-111 read it: result() is None for a future that holds an          *)
(* exception, and exception() then gives the exception.                    *)
(***************************************************************************)
NoFuture == [st |-> "none", names |-> <<>>]
PendingFuture == [st |-> "pending", names |-> <<>>]

\* What a dispatched call may complete with: a response or an exception.
Outcomes ==
    { [st |-> "ok", names |-> n] : n \in ResponseNames }
        \cup { [st |-> "exc", names |-> <<>>] }

FutureKeys == { p \in Procs : futures[p].st # "none" }
PendingKeys == { p \in Procs : futures[p].st = "pending" }

\* Faulty variant of ResultIsNone: only a future that is not done counts as
\* failed, one that holds an exception is read as a response.
ResultIsNoneOnlyPending(f) == f.st = "pending"

\* Faulty variant of ResultIsNone: only a future that holds an exception
\* counts as failed, one that is not done is read as a response.
ResultIsNoneOnlyException(f) == f.st = "exc"

\* future.result() is None (l.110)
ResultIsNone(f) == f.st # "ok"

\* Faulty variant of NotYetCalled: the filter "if n not in futures" is left out.
NotYetCalledAll(cl, keys) == cl

\* [n for n in clients.keys() if n not in futures] (l.87-89)
NotYetCalled(cl, keys) == SelectIn(cl, Procs \ keys)

\* Faulty variant of ServiceIsReady: the call is made without the test.
ServiceIsReadyAlways(p) == TRUE

\* Faulty variant of ServiceIsReady: the sense of the test is inverted.
ServiceIsReadyInverted(p) == p \notin ready

\* client.service_is_ready() (l.92)
ServiceIsReady(p) == p \in ready

\* Faulty variant of AllCalled: the loop is left after its first pass.
AllCalledAfterOnePass == TRUE

\* Faulty variant of AllCalled: the loop is never left.
AllCalledNever == FALSE

\* len(futures) == len(clients) (l.99)
AllCalled == Cardinality(FutureKeys) = Len(clients)

\* Faulty variant of SortedKeys: every key is listed twice.
SortedKeysTwice(keys) == keys \o keys

\* Faulty variant of SortedKeys: the keys in insertion order.
SortedKeysAsInserted(keys) == keys

\* sorted(futures.keys()) (l.108)
SortedKeys(keys) == SortSeq(keys, NodeNameLess)

\* sorted(response.result.names) (l.117)
SortedNames(names) == SortSeq(names, StrLess)

\* Faulty variant of Match: the whole name must equal the pattern, as with
\* fullmatch.
MatchWhole(pat, name) == name = pat

\* regex_filter.match(name) for a pattern without metacharacters: the pattern
\* is found at the start of the name.
Match(pat, name) ==
    Len(pat) <= Len(name) /\ SubSeq(name, 1, Len(pat)) = pat

\* [name for name in sorted_names if regex_filter.match(name)] (l.119)
RECURSIVE FilterNames(_, _)
FilterNames(names, pat) ==
    IF names = <<>> THEN <<>>
    ELSE IF Match(pat, Head(names))
         THEN <<Head(names)>> \o FilterNames(Tail(names), pat)
         ELSE FilterNames(Tail(names), pat)

\* The names of l.117-119.
ReportedNames(names, filter) ==
    IF filter # <<>> THEN FilterNames(SortedNames(names), filter[1])
    ELSE SortedNames(names)

\* Faulty variant of HeaderLines: the header is printed for an empty list too.
HeaderLinesEvenIfEmpty(p, target, names) ==
    IF target = None THEN << <<"header", p>> >> ELSE <<>>

\* The header of l.120-121.
HeaderLines(p, target, names) ==
    IF target = None /\ names # <<>> THEN << <<"header", p>> >> ELSE <<>>

\* The lines of l.132-137 without types.  A line carries the process it was
\* printed for, which the text of the line does not.
PlainLines(p, names) == [ i \in 1..Len(names) |-> <<"name", p, names[i]>> ]

\* The lines of l.132-135 with types, up to the first name that has no entry
\* in name_to_type_map.
RECURSIVE TypedLines(_, _, _)
TypedLines(p, names, have) ==
    IF names = <<>> \/ Head(names) \notin have THEN <<>>
    ELSE << <<"typed", p, Head(names)>> >> \o TypedLines(p, Tail(names), have)

\* Faulty variant of DescribeCall: the names of the response are passed as
\* they came, neither sorted nor filtered.
DescribeCallRawNames(p, names) == << <<p, futures[p].names>> >>

\* The lookup of l.125-127: call_describe_parameters for the process with
\* parameter_names=sorted_names.
DescribeCall(p, names) == << <<p, names>> >>

\* The line of l.112-114.
ErrorLine(p, f) == <<"error", p, f.st>>

(***************************************************************************)
(* ListVerb.main                                                           *)
(***************************************************************************)
ListInit ==
    /\ pc = "start"
    /\ node_names \in DiscoveredLists
    /\ arg_node_name \in Procs \cup {None}
    /\ service_names \in SUBSET Endpoints
    /\ arg_filter \in FilterArgs
    /\ param_type \in BOOLEAN
    /\ clients = <<>>
    /\ futures = [p \in Procs |-> NoFuture]
    /\ forder = <<>>
    /\ ready = {}
    /\ todo = <<>>
    /\ widx = 0
    /\ rorder = <<>>
    /\ stdout = <<>>
    /\ stderr = <<>>
    /\ ret = "unset"
    /\ created = [p \in Procs |-> 0]
    /\ calls = [p \in Procs |-> 0]
    /\ timedOut = {}
    /\ describes = <<>>

\* l.62-64: return 'Node not found'.
ReturnNotFound ==
    /\ UNCHANGED << wvars, hvars, bvars >>
    /\ pc = "start"
    /\ NodeNotFound(node_names, arg_node_name)
    /\ ret' = "Node not found"
    /\ pc' = "returned"
    /\ UNCHANGED << node_names, arg_node_name, service_names, arg_filter,
                    param_type, clients, futures, forder, ready, todo, widx,
                    rorder, stdout, stderr, created, calls, timedOut, describes >>

\* l.62-83: narrow the list, then create a client per process with the service.
CreateClients ==
    /\ UNCHANGED << wvars, hvars, bvars >>
    /\ pc = "start"
    /\ ~NodeNotFound(node_names, arg_node_name)
    /\ node_names' = Narrowed(node_names, arg_node_name)
    /\ clients' = ClientsFor(node_names', service_names)
    /\ created' = [p \in Procs |->
                     created[p] + Cardinality({ i \in 1..Len(clients') : clients'[i] = p })]
    /\ pc' = "loop"
    /\ UNCHANGED << arg_node_name, service_names, arg_filter, param_type,
                    futures, forder, ready, todo, widx, rorder, stdout, stderr,
                    ret, calls, timedOut, describes >>

\* l.87-89: the list the for statement iterates is built once per pass.
BeginPass ==
    /\ UNCHANGED << wvars, hvars, bvars >>
    /\ pc = "loop"
    /\ todo' = NotYetCalled(clients, FutureKeys)
    /\ pc' = "check"
    /\ UNCHANGED << node_names, arg_node_name, service_names, arg_filter,
                    param_type, clients, futures, forder, ready, widx, rorder,
                    stdout, stderr, ret, created, calls, timedOut, describes >>

\* l.91-97: one iteration of the for statement.
CheckClient ==
    /\ UNCHANGED << wvars, hvars, bvars >>
    /\ pc = "check"
    /\ todo # <<>>
    /\ LET p == Head(todo) IN
         IF ServiceIsReady(p)
         THEN /\ calls' = [calls EXCEPT ![p] = @ + 1]
              /\ futures' = [futures EXCEPT ![p] = PendingFuture]
              /\ forder' = IF p \in FutureKeys THEN forder ELSE Append(forder, p)
         ELSE UNCHANGED << calls, futures, forder >>
    /\ todo' = Tail(todo)
    /\ UNCHANGED << pc, node_names, arg_node_name, service_names, arg_filter,
                    param_type, clients, ready, widx, rorder, stdout, stderr,
                    ret, created, timedOut, describes >>

\* l.99-100: the pass is over; leave the loop or go on to spin_once.
EndPass ==
    /\ UNCHANGED << wvars, hvars, bvars >>
    /\ pc = "check"
    /\ todo = <<>>
    /\ IF AllCalled THEN pc' = "fanin" /\ widx' = 1
                    ELSE pc' = "spin" /\ widx' = widx
    /\ UNCHANGED << node_names, arg_node_name, service_names, arg_filter,
                    param_type, clients, futures, forder, ready, todo, rorder,
                    stdout, stderr, ret, created, calls, timedOut, describes >>

\* l.101: spin_once handles at most one piece of work, here the completion of
\* one dispatched call, or its timeout elapses.
SpinOnce ==
    /\ UNCHANGED << wvars, hvars, bvars >>
    /\ pc = "spin"
    /\ \/ \E p \in PendingKeys, o \in Outcomes :
             futures' = [futures EXCEPT ![p] = o]
       \/ UNCHANGED futures
    /\ pc' = "loop"
    /\ UNCHANGED << node_names, arg_node_name, service_names, arg_filter,
                    param_type, clients, forder, ready, todo, widx, rorder,
                    stdout, stderr, ret, created, calls, timedOut, describes >>

\* The graph changes under the loop: the service of a client that has not been
\* called yet becomes ready or stops being ready.
GraphChange ==
    /\ UNCHANGED << wvars, hvars, bvars >>
    /\ pc \in {"loop", "check", "spin"}
    /\ \E p \in Range(clients) \ FutureKeys :
         ready' = IF p \in ready THEN ready \ {p} ELSE ready \cup {p}
    /\ UNCHANGED << pc, node_names, arg_node_name, service_names, arg_filter,
                    param_type, clients, futures, forder, todo, widx, rorder,
                    stdout, stderr, ret, created, calls, timedOut, describes >>

\* l.104-105: spin_until_future_complete for the next future.  It does not spin
\* when the future is done already; otherwise it spins until the future is done
\* or the timeout elapses, and the spinning may complete other dispatched calls.
WaitFuture ==
    /\ UNCHANGED << wvars, hvars, bvars >>
    /\ pc = "fanin"
    /\ widx <= Len(forder)
    /\ LET cur == forder[widx] IN
         IF futures[cur].st # "pending"
         THEN UNCHANGED << futures, timedOut >>
         ELSE \E S \in SUBSET PendingKeys : \E o \in [S -> Outcomes] :
                /\ futures' = [p \in Procs |-> IF p \in S THEN o[p] ELSE futures[p]]
                /\ timedOut' = IF cur \in S THEN timedOut ELSE timedOut \cup {cur}
    /\ widx' = widx + 1
    /\ UNCHANGED << pc, node_names, arg_node_name, service_names, arg_filter,
                    param_type, clients, forder, ready, todo, rorder, stdout,
                    stderr, ret, created, calls, describes >>

\* l.108: the keys are sorted once, when the report loop starts.
BeginReport ==
    /\ UNCHANGED << wvars, hvars, bvars >>
    /\ pc = "fanin"
    /\ widx > Len(forder)
    /\ rorder' = SortedKeys(forder)
    /\ pc' = "report"
    /\ UNCHANGED << node_names, arg_node_name, service_names, arg_filter,
                    param_type, clients, futures, forder, ready, todo, widx,
                    stdout, stderr, ret, created, calls, timedOut, describes >>

\* l.109-137: one iteration of the report loop.
ReportNode ==
    /\ UNCHANGED << wvars, hvars, bvars >>
    /\ pc = "report"
    /\ rorder # <<>>
    /\ rorder' = Tail(rorder)
    /\ LET p == Head(rorder)
           future == futures[p]
           names == ReportedNames(future.names, arg_filter)
       IN IF ResultIsNone(future)
          THEN /\ stderr' = Append(stderr, ErrorLine(p, future))
               /\ UNCHANGED << stdout, describes, pc >>
          ELSE /\ UNCHANGED stderr
               /\ IF param_type
                  THEN /\ describes' = describes \o DescribeCall(p, names)
                       /\ \E have \in SUBSET Range(names) :
                            /\ stdout' = stdout \o HeaderLines(p, arg_node_name, names)
                                                \o TypedLines(p, names, have)
                            /\ pc' = IF Range(names) \subseteq have
                                     THEN "report" ELSE "raised"
                  ELSE /\ stdout' = stdout \o HeaderLines(p, arg_node_name, names)
                                           \o PlainLines(p, names)
                       /\ UNCHANGED << describes, pc >>
    /\ UNCHANGED << node_names, arg_node_name, service_names, arg_filter,
                    param_type, clients, futures, forder, ready, todo, widx,
                    ret, created, calls, timedOut >>

\* The report loop is over: main returns None.
ReturnNone ==
    /\ UNCHANGED << wvars, hvars, bvars >>
    /\ pc = "report"
    /\ rorder = <<>>
    /\ ret' = "None"
    /\ pc' = "returned"
    /\ UNCHANGED << node_names, arg_node_name, service_names, arg_filter,
                    param_type, clients, futures, forder, ready, todo, widx,
                    rorder, stdout, stderr, created, calls, timedOut, describes >>

\* Neither program has started: the state of the variables of the one a
\* specification does not run.
ListIdle ==
    /\ pc = "idle"
    /\ node_names = <<>>
    /\ arg_node_name = None
    /\ service_names = {}
    /\ arg_filter = <<>>
    /\ param_type = FALSE
    /\ clients = <<>>
    /\ futures = [p \in Procs |-> NoFuture]
    /\ forder = <<>>
    /\ ready = {}
    /\ todo = <<>>
    /\ widx = 0
    /\ rorder = <<>>
    /\ stdout = <<>>
    /\ stderr = <<>>
    /\ ret = "unset"
    /\ created = [p \in Procs |-> 0]
    /\ calls = [p \in Procs |-> 0]
    /\ timedOut = {}
    /\ describes = <<>>

BindIdle ==
    /\ bpc = "idle"
    /\ barity = 0
    /\ bbound = <<>>
    /\ bboundkw = <<>>
    /\ bcall = <<>>
    /\ bcallkw = <<>>
    /\ bfargs = << <<>>, <<>> >>
    /\ bfcalls = 0
    /\ bret = [kind |-> "none", val |-> << <<>>, <<>> >>]
    /\ bcount = 0

HookIdle ==
    /\ hpc = "idle"
    /\ hhook = [req |-> 0, var |-> FALSE, method |-> FALSE]
    /\ hpass = FALSE
    /\ hargs = <<>>
    /\ hlog = <<>>
    /\ hfunc = 0
    /\ hret = [kind |-> "none", val |-> 0]
    /\ hcount = 0

WaitIdle ==
    /\ wpc = "idle"
    /\ wscript = <<FALSE>>
    /\ wtimeout = 0
    /\ wperiod = 1
    /\ wnow = 0
    /\ wstart = 0
    /\ wdeadline = [inf |-> FALSE, t |-> 0]
    /\ wevals = 0
    /\ wtest = FALSE
    /\ wlast = FALSE
    /\ wsleeps = 0
    /\ wbroke = FALSE
    /\ wret = FALSE

Init == ListInit /\ WaitIdle /\ HookIdle /\ BindIdle

Next ==
    \/ ReturnNotFound
    \/ CreateClients
    \/ BeginPass
    \/ CheckClient
    \/ EndPass
    \/ SpinOnce
    \/ GraphChange
    \/ WaitFuture
    \/ BeginReport
    \/ ReportNode
    \/ ReturnNone

Spec == Init /\ [][Next]_vars

\* The steps of main itself; GraphChange is a step of the environment.
MainNext ==
    \/ ReturnNotFound
    \/ CreateClients
    \/ BeginPass
    \/ CheckClient
    \/ EndPass
    \/ SpinOnce
    \/ WaitFuture
    \/ BeginReport
    \/ ReportNode
    \/ ReturnNone

\* main runs in one thread that nothing stops, and both spin_once (l.101) and
\* spin_until_future_complete (l.105) return after their timeout at the
\* latest: the next statement of main is eventually executed.
FairSpec == Init /\ [][Next]_vars /\ WF_vars(MainNext)

(***************************************************************************)
(* wait_for(predicate, timeout, period)                                    *)
(***************************************************************************)
\* The predicates: the answers of the successive evaluations; the last answer
\* of the script is the answer of every later evaluation.
Scripts == UNION { [1..k -> BOOLEAN] : k \in 1..MaxScript }

\* predicate(), evaluated for the k-th time.
PredicateValue(k) == wscript[IF k <= Len(wscript) THEN k ELSE Len(wscript)]

\* Faulty variant of Deadline: a negative timeout is not replaced by +inf.
DeadlineNoInf(now, timeout) == [inf |-> FALSE, t |-> now + timeout]

\* l.26-28: deadline = time.time() + timeout, with timeout = +inf when it is
\* negative; inf marks the float +inf.
Deadline(now, timeout) ==
    IF timeout < 0 THEN [inf |-> TRUE, t |-> 0]
    ELSE [inf |-> FALSE, t |-> now + timeout]

\* Faulty variant of PastDeadline: the deadline never passes.
PastDeadlineNever(now, deadline) == FALSE

\* l.30: time.time() > deadline
PastDeadline(now, deadline) == ~deadline.inf /\ now > deadline.t

\* Faulty variant of ReturnValue: the value that ended the loop is returned.
ReturnValueOfLoop(loopValue, finalValue) == loopValue

\* l.33: the value returned is that of a new evaluation, not the one that
\* ended the loop.
ReturnValue(loopValue, finalValue) == finalValue

WaitInit ==
    /\ wpc = "enter"
    /\ wscript \in Scripts
    /\ wtimeout \in (0 - MaxNegTimeout)..MaxTimeout
    /\ wperiod \in 1..MaxPeriod
    /\ wnow = 0
    /\ wstart = 0
    /\ wdeadline = [inf |-> FALSE, t |-> 0]
    /\ wevals = 0
    /\ wtest = FALSE
    /\ wlast = FALSE
    /\ wsleeps = 0
    /\ wbroke = FALSE
    /\ wret = FALSE

\* l.26-28
WaitEnter ==
    /\ UNCHANGED << lvars, hvars, bvars >>
    /\ wpc = "enter"
    /\ wstart' = wnow
    /\ wdeadline' = Deadline(wnow, wtimeout)
    /\ wpc' = "test"
    /\ UNCHANGED << wscript, wtimeout, wperiod, wnow, wevals, wtest, wlast,
                    wsleeps, wbroke, wret >>

\* l.29: while not predicate()
WaitTest ==
    /\ UNCHANGED << lvars, hvars, bvars >>
    /\ wpc = "test"
    /\ wevals' = wevals + 1
    /\ wtest' = PredicateValue(wevals')
    /\ wlast' = wtest'
    /\ wpc' = IF wtest' THEN "return" ELSE "deadline"
    /\ UNCHANGED << wscript, wtimeout, wperiod, wnow, wstart, wdeadline,
                    wsleeps, wbroke, wret >>

\* l.30-31: if time.time() > deadline: break
WaitDeadline ==
    /\ UNCHANGED << lvars, hvars, bvars >>
    /\ wpc = "deadline"
    /\ IF PastDeadline(wnow, wdeadline)
       THEN wbroke' = TRUE /\ wpc' = "return"
       ELSE wbroke' = wbroke /\ wpc' = "sleep"
    /\ UNCHANGED << wscript, wtimeout, wperiod, wnow, wstart, wdeadline,
                    wevals, wtest, wlast, wsleeps, wret >>

\* l.32: time.sleep(period) returns after the period, or somewhat later.
WaitSleep ==
    /\ UNCHANGED << lvars, hvars, bvars >>
    /\ wpc = "sleep"
    /\ wsleeps < MaxSleeps
    /\ wsleeps' = wsleeps + 1
    /\ \E over \in 0..MaxOverrun : wnow' = wnow + wperiod + over
    /\ wpc' = "test"
    /\ UNCHANGED << wscript, wtimeout, wperiod, wstart, wdeadline, wevals,
                    wtest, wlast, wbroke, wret >>

\* l.33: return predicate()
WaitReturn ==
    /\ UNCHANGED << lvars, hvars, bvars >>
    /\ wpc = "return"
    /\ wevals' = wevals + 1
    /\ wlast' = PredicateValue(wevals')
    /\ wret' = ReturnValue(wtest, wlast')
    /\ wpc' = "done"
    /\ UNCHANGED << wscript, wtimeout, wperiod, wnow, wstart, wdeadline,
                    wtest, wsleeps, wbroke >>

WaitNext ==
    \/ WaitEnter
    \/ WaitTest
    \/ WaitDeadline
    \/ WaitSleep
    \/ WaitReturn

InitWait == ListIdle /\ WaitInit /\ HookIdle /\ BindIdle

SpecWait == InitWait /\ [][WaitNext]_vars

\* wait_for runs in one thread that nothing stops: its next statement is
\* eventually executed.
FairSpecWait == InitWait /\ [][WaitNext]_vars /\ WF_vars(WaitNext)

(***************************************************************************)
(* before_invocation(func, hook)                                           *)
(***************************************************************************)
\* The values arguments and results are drawn from.
Vals == 1..MaxVal

\* The positional argument lists of a call.
ArgLists == UNION { [1..k -> Vals] : k \in 0..MaxArgs }

\* func, where it is passed as an argument among the values.
Func == 0

\* The hooks: a hook declares req required positional parameters and, with
\* var, a *args parameter; a bound method's self is not among them.
Hooks == [req : 0..MaxHookParams, var : BOOLEAN, method : BOOLEAN]

\* len(inspect.signature(hook).parameters) (l.61-62): the signature of a bound
\* method leaves out the bound first parameter.
SignatureParams(hook) == hook.req + (IF hook.var THEN 1 ELSE 0)

\* l.62-64: nargs, one less for a method.
NArgs(hook) ==
    IF hook.method THEN SignatureParams(hook) - 1 ELSE SignatureParams(hook)

\* l.65: which of the two wrappers is built.
PassesCall(hook) == NArgs(hook) > 0

\* The arguments the wrapper calls the hook with (l.68, l.73).
HookActuals(pass, args) == IF pass THEN <<Func>> \o args ELSE <<>>

\* Whether a call with n positional arguments binds to the hook's parameters;
\* otherwise the call raises TypeError before the hook's body runs.
Accepts(hook, n) == n >= hook.req /\ (hook.var \/ n = hook.req)

HookInit ==
    /\ hpc = "wrap"
    /\ hhook \in Hooks
    /\ hpass = FALSE
    /\ hargs = <<>>
    /\ hlog = <<>>
    /\ hfunc = 0
    /\ hret = [kind |-> "none", val |-> 0]
    /\ hcount = 0

\* l.60-76: before_invocation builds the wrapper.
BeforeInvocation ==
    /\ UNCHANGED << lvars, wvars, bvars >>
    /\ hpc = "wrap"
    /\ hpass' = PassesCall(hhook)
    /\ hpc' = "ready"
    /\ UNCHANGED << hhook, hargs, hlog, hfunc, hret, hcount >>

\* The wrapper is invoked with some arguments.
InvokeWrapper ==
    /\ UNCHANGED << lvars, wvars, bvars >>
    /\ hpc \in {"ready", "returned", "raised"}
    /\ hcount < MaxInvocations
    /\ hcount' = hcount + 1
    /\ hargs' \in ArgLists
    /\ hlog' = <<>>
    /\ hfunc' = 0
    /\ hret' = [kind |-> "none", val |-> 0]
    /\ hpc' = "hook"
    /\ UNCHANGED << hhook, hpass >>

\* l.68 or l.73: the hook is called; the call raises when the arguments do not
\* bind or when the hook's body raises.
CallHook ==
    /\ UNCHANGED << lvars, wvars, bvars >>
    /\ hpc = "hook"
    /\ LET actuals == HookActuals(hpass, hargs) IN
         /\ hlog' = Append(hlog, <<"hook", actuals>>)
         /\ IF Accepts(hhook, Len(actuals))
            THEN \E raises \in BOOLEAN :
                   IF raises
                   THEN hpc' = "raised" /\ hret' = [kind |-> "hook raised", val |-> 0]
                   ELSE hpc' = "func" /\ hret' = hret
            ELSE hpc' = "raised" /\ hret' = [kind |-> "hook TypeError", val |-> 0]
    /\ UNCHANGED << hhook, hpass, hargs, hfunc, hcount >>

\* l.69 or l.74: return func(*args, **kwargs)
CallFunc ==
    /\ UNCHANGED << lvars, wvars, bvars >>
    /\ hpc = "func"
    /\ hlog' = Append(hlog, <<"func", hargs>>)
    /\ \/ \E v \in Vals :
            /\ hfunc' = v
            /\ hret' = [kind |-> "value", val |-> v]
            /\ hpc' = "returned"
       \/ /\ hfunc' = hfunc
          /\ hret' = [kind |-> "func raised", val |-> 0]
          /\ hpc' = "raised"
    /\ UNCHANGED << hhook, hpass, hargs, hcount >>

HookNext ==
    \/ BeforeInvocation
    \/ InvokeWrapper
    \/ CallHook
    \/ CallFunc

InitHook == ListIdle /\ WaitIdle /\ HookInit /\ BindIdle

SpecHook == InitHook /\ [][HookNext]_vars

(***************************************************************************)
(* bind(func, *args, **kwargs)                                             *)
(***************************************************************************)
\* The keyword arguments of a call: none, or one keyword with a value.
KwArgs == { <<>> } \cup { <<v>> : v \in Vals }

\* func: it declares barity positional parameters and accepts the keyword; a
\* call with another number of positional arguments raises TypeError, any
\* other call returns a value that tells the arguments apart.
FuncResult(arity, args, kw) ==
    IF Len(args) = arity
    THEN [kind |-> "value", val |-> << args, kw >>]
    ELSE [kind |-> "TypeError", val |-> << <<>>, <<>> >>]

PartialArgsCallFirst(bound, call) == call \o bound

\* functools.partial (l.42, l.46): the positional arguments func is called
\* with are the bound ones followed by those of the call.
PartialArgs(bound, call) == bound \o call

\* functools.partial (l.42, l.46): a keyword of the call replaces a bound one.
PartialKw(boundkw, callkw) == IF callkw # <<>> THEN callkw ELSE boundkw

BindInit ==
    /\ bpc = "bind"
    /\ barity \in 0..MaxArity
    /\ bbound \in ArgLists
    /\ bboundkw \in KwArgs
    /\ bcall = <<>>
    /\ bcallkw = <<>>
    /\ bfargs = << <<>>, <<>> >>
    /\ bfcalls = 0
    /\ bret = [kind |-> "none", val |-> << <<>>, <<>> >>]
    /\ bcount = 0

\* l.36-48: bind builds the partial and the wrapper.
Bind ==
    /\ UNCHANGED << lvars, wvars, hvars >>
    /\ bpc = "bind"
    /\ bpc' = "bound"
    /\ UNCHANGED << barity, bbound, bboundkw, bcall, bcallkw, bfargs, bfcalls,
                    bret, bcount >>

\* l.45-46: the wrapper is called and returns partial(*args, **kwargs).
CallBound ==
    /\ UNCHANGED << lvars, wvars, hvars >>
    /\ bpc = "bound"
    /\ bcount < MaxInvocations
    /\ bcount' = bcount + 1
    /\ \E call \in ArgLists, callkw \in KwArgs :
         LET args == PartialArgs(bbound, call)
             kw == PartialKw(bboundkw, callkw)
         IN  /\ bcall' = call
             /\ bcallkw' = callkw
             /\ bfargs' = << args, kw >>
             /\ bfcalls' = bfcalls + 1
             /\ bret' = FuncResult(barity, args, kw)
    /\ bpc' = "called"
    /\ UNCHANGED << barity, bbound, bboundkw >>

\* The caller has the outcome of the call; the wrapper can be called again.
ReturnBound ==
    /\ UNCHANGED << lvars, wvars, hvars >>
    /\ bpc = "called"
    /\ bpc' = "bound"
    /\ bcall' = <<>>
    /\ bcallkw' = <<>>
    /\ bfargs' = << <<>>, <<>> >>
    /\ bret' = [kind |-> "none", val |-> << <<>>, <<>> >>]
    /\ UNCHANGED << barity, bbound, bboundkw, bfcalls, bcount >>

BindNext ==
    \/ Bind
    \/ CallBound
    \/ ReturnBound

InitBind == ListIdle /\ WaitIdle /\ HookIdle /\ BindInit

SpecBind == InitBind /\ [][BindNext]_vars

(***************************************************************************)
(* Properties of ListVerb.main                                             *)
(***************************************************************************)
\* The processes the report loop has handled so far.
Reported ==
    IF pc \in {"report", "raised"} \/ (pc = "returned" /\ ret = "None")
    THEN FutureKeys \ Range(rorder) ELSE {}

\* The process whose report iteration ended main with an exception.
Raiser ==
    IF pc = "raised" THEN { describes[Len(describes)][1] } ELSE {}

\* The lines of a stream written for process p.
LinesOf(out, p) == SelectSeq(out, LAMBDA l : l[2] = p)

\* The parameter names printed for process p.
NamesPrinted(p) ==
    LET ls == SelectSeq(stdout, LAMBDA l : l[2] = p /\ l[1] # "header")
    IN  [ i \in 1..Len(ls) |-> ls[i][3] ]

\* main is past the fan-out loop.
PastFanOut ==
    pc \in {"fanin", "report", "raised"} \/ (pc = "returned" /\ ret = "None")

\* C1: no process is ever called more than once, a process has a future
\* exactly when it was called once, only processes with a client are called,
\* and once the fan-out loop is left every process with a client has been
\* called exactly once.
C1_CalledExactlyOnce ==
    /\ \A p \in Procs : calls[p] <= 1
    /\ \A p \in Procs : (calls[p] = 1) <=> (p \in FutureKeys)
    /\ \A p \in Procs : calls[p] = 1 => p \in Range(clients)
    /\ PastFanOut => \A p \in Range(clients) : calls[p] = 1

\* Two clients called in different passes, the second listed one first, and
\* the loop left.
C1_Witness ==
    /\ pc = "fanin"
    /\ clients = <<1, 2>>
    /\ forder = <<2, 1>>
    /\ calls[1] = 1 /\ calls[2] = 1

\* C2: when the target is given and not discovered, main does nothing but
\* return 'Node not found': no client is created, no call is made, no
\* describe lookup is made and nothing is written to either stream.
C2_NotFound ==
    (arg_node_name # None /\ arg_node_name \notin Range(node_names)) =>
        /\ pc \in {"start", "returned"}
        /\ pc = "returned" => ret = "Node not found"
        /\ clients = <<>>
        /\ \A p \in Procs : created[p] = 0 /\ calls[p] = 0 /\ futures[p].st = "none"
        /\ stdout = <<>> /\ stderr = <<>> /\ describes = <<>>

\* main has returned 'Node not found' although other processes were
\* discovered and the target's endpoint is among the services.
C2_Witness ==
    /\ pc = "returned"
    /\ ret = "Node not found"
    /\ node_names # <<>>
    /\ <<arg_node_name, "list_parameters">> \in service_names

\* C3: in the report loop a process whose future holds an exception or no
\* result gets exactly one line on the error stream and no line on standard
\* output, and its iteration does not end main; every handled process whose
\* call succeeded has no error line and, unless its own iteration ended main,
\* has exactly its names printed; main returns only when all are handled.
C3_FailureIsSkipped ==
    /\ \A p \in Reported :
         IF futures[p].st \in {"pending", "exc"}
         THEN /\ Len(LinesOf(stderr, p)) = 1
              /\ LinesOf(stdout, p) = <<>>
              /\ p \notin Raiser
         ELSE /\ LinesOf(stderr, p) = <<>>
              /\ p \notin Raiser =>
                   NamesPrinted(p) = ReportedNames(futures[p].names, arg_filter)
    /\ (pc = "returned" /\ ret = "None") => Reported = FutureKeys

\* The first process in sorted order failed with an exception, the second
\* succeeded and has its names printed.
C3_Witness ==
    /\ pc = "returned"
    /\ futures[1].st = "exc"
    /\ futures[2].st = "ok"
    /\ Len(LinesOf(stderr, 1)) = 1
    /\ NamesPrinted(2) # <<>>

C5_ReportSorted ==
    /\ \A i, j \in 1..Len(stdout) : i < j => stdout[i][2] <= stdout[j][2]
    /\ \A i, j \in 1..Len(stderr) : i < j => stderr[i][2] <= stderr[j][2]
    /\ \A b \in Range(rorder) :
         /\ \A i \in 1..Len(stdout) : stdout[i][2] < b
         /\ \A i \in 1..Len(stderr) : stderr[i][2] < b

\* Process 2 was called first and completed first, and the lines of process 1
\* come before those of process 2.
C5_Witness ==
    /\ pc = "returned"
    /\ forder = <<2, 1>>
    /\ 1 \notin timedOut /\ 2 \notin timedOut
    /\ \E i, j \in 1..Len(stdout) : i < j /\ stdout[i][2] = 1 /\ stdout[j][2] = 2

\* C6: if a created client is never ready, main stays in the fan-out loop for
\* ever and nothing is written, whatever happened to the other clients.
C6_UnreadyClientStalls ==
    \A p \in Procs :
        [](p \in Range(clients) => p \notin ready)
            => [](p \in Range(clients) =>
                    /\ pc \in {"loop", "check", "spin"}
                    /\ stdout = <<>> /\ stderr = <<>>)

\* The loop spins again with one client unready while the call to the other
\* has completed with a response; nothing has been written.
C6_Witness ==
    /\ pc = "spin"
    /\ clients = <<1, 2>>
    /\ 2 \notin ready
    /\ futures[1].st = "ok"
    /\ futures[2].st = "none"
    /\ stdout = <<>> /\ stderr = <<>>

\* C10: once the clients are created, a candidate process has a client
\* exactly when its list_parameters endpoint is among the services, and then
\* exactly one; a process without the endpoint never gets a client, is never
\* called and never appears on either stream.
C10_ClientIffEndpoint ==
    /\ (pc # "start" /\ ret # "Node not found") =>
         \A p \in Procs :
            /\ p \in Range(clients) <=>
                 (p \in Range(node_names) /\ <<p, "list_parameters">> \in service_names)
            /\ created[p] = IF p \in Range(clients) THEN 1 ELSE 0
            /\ Cardinality({ i \in 1..Len(clients) : clients[i] = p }) <= 1
    /\ \A p \in Procs :
         <<p, "list_parameters">> \notin service_names =>
            /\ created[p] = 0 /\ calls[p] = 0 /\ futures[p].st = "none"
            /\ LinesOf(stdout, p) = <<>> /\ LinesOf(stderr, p) = <<>>

\* Process 1 was discovered with another endpoint only and has no client;
\* process 2 has the endpoint and its names were printed.
C10_Witness ==
    /\ pc = "returned"
    /\ node_names = <<1, 2>>
    /\ service_names = { <<1, "describe_parameters">>, <<2, "list_parameters">> }
    /\ clients = <<2>>
    /\ NamesPrinted(2) # <<>>
    /\ LinesOf(stdout, 1) = <<>>

(***************************************************************************)
(* Properties of wait_for                                                  *)
(***************************************************************************)
\* The predicate answers False at every evaluation.
AlwaysFalse == \A i \in 1..Len(wscript) : ~wscript[i]

\* Once the predicate answers True it answers True ever after.
StaysTrue == \A i, j \in 1..Len(wscript) : (i < j /\ wscript[i]) => wscript[j]

\* The time since the deadline was computed.
Elapsed == wnow - wstart

\* C7: wait_for returns the value of the last evaluation of the predicate it
\* made, whether the deadline exit was taken or not; when the first
\* evaluation is True it returns after one more evaluation, without sleeping.
C7_ReturnsFinalValue ==
    wpc = "done" =>
        /\ wret = wlast
        /\ wret = PredicateValue(wevals)
        /\ wscript[1] => (wsleeps = 0 /\ Elapsed = 0 /\ wevals = 2 /\ ~wbroke)

\* The deadline exit was taken after a sleep and the last evaluation, the one
\* returned, is True.
C7_Witness ==
    /\ wpc = "done"
    /\ wbroke
    /\ wsleeps > 0
    /\ ~wtest
    /\ wret

\* C8 as stated: with a negative timeout the deadline exit is never taken and
\* whenever wait_for returns, it returns True.
C8_NegativeTimeoutReturnsTrue ==
    (wtimeout < 0 /\ wpc = "done") => (~wbroke /\ wret = TRUE)

\* C8 amended: with a negative timeout the deadline exit is never taken;
\* wait_for returns only after the loop test has seen True, and returns the
\* value of one more evaluation, which is True when the predicate stays true
\* once true; it does not return when the predicate is never true.
C8_NegativeTimeoutWaitsForTrue ==
    wtimeout < 0 =>
        /\ ~wbroke
        /\ wpc \in {"return", "done"} => wtest
        /\ wpc = "done" => wret = PredicateValue(wevals)
        /\ (wpc = "done" /\ StaysTrue) => wret
        /\ AlwaysFalse => wpc \notin {"return", "done"}

\* With a negative timeout wait_for slept more than once, past any deadline a
\* timeout of zero or more would have set, and returned True.
C8_Witness ==
    /\ wpc = "done"
    /\ wtimeout < 0
    /\ wsleeps >= 2
    /\ wret

\* C9: for a predicate that is always False, a timeout >= 0 and a period > 0,
\* wait_for returns, it returns False by the deadline exit, and when every
\* sleep took exactly the period the time elapsed at the return is within one
\* period of the timeout.
C9_FalsePredicateTimesOut ==
    /\ [](( wpc = "done" /\ AlwaysFalse /\ wtimeout >= 0 ) =>
            /\ wret = FALSE
            /\ wbroke
            /\ (Elapsed = wsleeps * wperiod) =>
                 /\ Elapsed - wtimeout <= wperiod
                 /\ wtimeout - Elapsed <= wperiod)
    /\ ((AlwaysFalse /\ wtimeout >= 0) ~> (wpc = "done"))

\* timeout 4, period 1 (the ratio of timeout=0.2, period=0.05): False is
\* returned after five sleeps of one period, one period after the timeout.
C9_Witness ==
    /\ wpc = "done"
    /\ AlwaysFalse
    /\ wtimeout = 4
    /\ wperiod = 1
    /\ Elapsed = 5
    /\ wsleeps = 5
    /\ wret = FALSE

(***************************************************************************)
(* Properties of the report loop of ListVerb.main                          *)
(***************************************************************************)
\* The pattern is found at the start of the name.
StartsWith(name, pat) == \E k \in 0..Len(name) : SubSeq(name, 1, k) = pat

\* The names of the response of process p that the filter keeps.
Wanted(p) ==
    { n \in Range(futures[p].names) :
        arg_filter = <<>> \/ StartsWith(n, arg_filter[1]) }

\* C11: the names printed for a handled successful process are names of its
\* response that match the filter from their start (all names without a
\* filter), in ascending order without gaps; they are all of them once the
\* iteration of the process has run to its end.
C11_FilteredSortedNames ==
    \A p \in Reported :
        futures[p].st = "ok" =>
            LET pr == NamesPrinted(p) IN
            /\ Range(pr) \subseteq Wanted(p)
            /\ \A i, j \in 1..Len(pr) : i < j => StrLess(pr[i], pr[j])
            /\ \A n \in Wanted(p) :
                 (\E i \in 1..Len(pr) : StrLess(n, pr[i])) => n \in Range(pr)
            /\ p \notin Raiser => Range(pr) = Wanted(p)

\* With the filter "x" a response ["y1", "x1"] is printed as "x1" alone,
\* which the pattern matches at its start without being equal to it.
C11_Witness ==
    /\ pc = "returned"
    /\ arg_filter = <<NameX>>
    /\ \E p \in Reported :
         /\ futures[p].names = <<NameY1, NameX1>>
         /\ NamesPrinted(p) = <<NameX1>>

\* The header lines printed for process p.
HeadersOf(p) == SelectSeq(stdout, LAMBDA l : l[2] = p /\ l[1] = "header")

\* C12: a process has one header line, ahead of its names, when it was
\* handled as a success, no target was given and the filter kept at least one
\* of its names; otherwise it has none, in particular when its call failed or
\* the filter removed all its names.
C12_HeaderIffNamesAndNoTarget ==
    \A p \in Procs :
        IF /\ p \in Reported
           /\ futures[p].st = "ok"
           /\ arg_node_name = None
           /\ Wanted(p) # {}
        THEN /\ Len(HeadersOf(p)) = 1
             /\ LinesOf(stdout, p)[1][1] = "header"
        ELSE HeadersOf(p) = <<>>

\* No target and the filter "x": process 1 answered ["y1"] and has no line at
\* all, process 2 answered ["y1", "x1"] and has its header.
C12_Witness ==
    /\ pc = "returned"
    /\ arg_node_name = None
    /\ arg_filter = <<NameX>>
    /\ futures[1].st = "ok" /\ futures[1].names = <<NameY1>>
    /\ futures[2].st = "ok" /\ futures[2].names = <<NameY1, NameX1>>
    /\ LinesOf(stdout, 1) = <<>>
    /\ Len(HeadersOf(2)) = 1

\* The describe lookups made for process p.
DescribesOf(p) == SelectSeq(describes, LAMBDA d : d[1] = p)

\* C13: with the show-type flag, every process handled as a success has had
\* exactly one describe lookup, with the kept names in ascending order, and no
\* other process has had one; the lookups were made in the order of the
\* report; without the flag no lookup is made.
C13_OneDescribePerSuccess ==
    /\ \A p \in Procs :
         IF param_type /\ p \in Reported /\ futures[p].st = "ok"
         THEN /\ Len(DescribesOf(p)) = 1
              /\ LET names == DescribesOf(p)[1][2] IN
                   /\ Range(names) = Wanted(p)
                   /\ \A i, j \in 1..Len(names) : i < j => StrLess(names[i], names[j])
         ELSE DescribesOf(p) = <<>>
    /\ \A i, j \in 1..Len(describes) : i < j => describes[i][1] < describes[j][1]
    /\ (pc = "returned" /\ ret = "None") => Reported = FutureKeys

\* With the flag and the filter "x": the call to process 1 failed and has no
\* lookup, process 2 answered ["y1", "x1"] and its lookup was for "x1".
C13_Witness ==
    /\ pc = "returned"
    /\ param_type
    /\ futures[1].st = "exc"
    /\ futures[2].st = "ok"
    /\ describes = << <<2, <<NameX1>> >> >>
    /\ futures[2].names = <<NameY1, NameX1>>

\* C14: main ends in one of two ways only, by returning 'Node not found' or by
\* returning None after every called process was either logged on the error
\* stream or had its kept names printed; no failure after discovery, a missing
\* descriptor included, ends main with an exception.
C14_OnlyNotFoundIsHardFailure ==
    /\ pc # "raised"
    /\ (pc = "returned" /\ ret = "None") =>
          \A p \in FutureKeys :
              IF futures[p].st = "ok"
              THEN Range(NamesPrinted(p)) = Wanted(p) /\ LinesOf(stderr, p) = <<>>
              ELSE Len(LinesOf(stderr, p)) = 1 /\ LinesOf(stdout, p) = <<>>

\* C17: a call is made only by the readiness check of that client in a pass,
\* and only when the check found the service ready; a check that finds the
\* service not ready makes no call; every pass checks all the clients that
\* have not been called yet, and the loop is left only when none is left, so
\* that a client found not ready is checked again in the next pass.
C17_DispatchOnlyWhenObservedReady ==
    [][ /\ \A p \in Procs :
             calls'[p] # calls[p] =>
                /\ pc = "check" /\ todo # <<>> /\ Head(todo) = p
                /\ p \in ready
                /\ calls'[p] = calls[p] + 1
        /\ (pc = "check" /\ todo # <<>> /\ todo' # todo /\ Head(todo) \notin ready) =>
                /\ calls' = calls /\ futures' = futures
                /\ Head(todo) \in Range(clients') \ FutureKeys'
        /\ (pc = "loop" /\ pc' # "loop") =>
                /\ pc' = "check"
                /\ Range(todo') = Range(clients) \ FutureKeys
        /\ (pc = "check" /\ pc' # "check") =>
                IF Range(clients) \subseteq FutureKeys
                THEN pc' = "fanin" ELSE pc' = "spin"
        /\ (pc = "spin" /\ pc' # "spin") => pc' = "loop"
        /\ pc \in {"loop", "check", "spin"} => clients' = clients
      ]_vars

\* A later pass has called the client that an earlier pass, the one that
\* called the other client, found not ready.
C17_Witness ==
    /\ pc = "check"
    /\ todo = <<>>
    /\ clients = <<1, 2>>
    /\ futures[1].st = "ok"
    /\ futures[2].st = "pending"
    /\ calls[2] = 1

\* C18: when every client is eventually ready and stays ready, main, unless
\* it returns 'Node not found', gets to the report loop, which is behind the
\* fan-out loop and the waits for the futures; when no client was created,
\* main never gets to spin_once, waits for no future and writes nothing.
C18_FanOutTerminates ==
    /\ []((pc # "start" /\ ret # "Node not found" /\ clients = <<>>) =>
            /\ pc \notin {"spin", "raised"}
            /\ forder = <<>>
            /\ stdout = <<>> /\ stderr = <<>>)
    /\ <>[](Range(clients) \subseteq ready) =>
            <>(pc = "report" \/ ret = "Node not found")

\* The report loop is reached with two clients, after a pass that found the
\* second one not ready and a wait of l.105 that timed out.
C18_Witness ==
    /\ pc = "report"
    /\ clients = <<1, 2>>
    /\ forder = <<1, 2>>
    /\ timedOut = {2}
    /\ futures[1].st = "ok"

\* C19: the phases of main are in order: a wait of l.105 is made only when
\* every client has been called, and no call is made from then on; a line is
\* written only when every wait of l.105 has returned, and no call and no
\* wait is made from then on.
C19_PhasesInOrder ==
    [][ /\ (pc = "fanin" /\ widx' # widx) =>
              /\ \A p \in Range(clients) : calls[p] = 1 /\ futures[p].st # "none"
              /\ Len(forder) = Len(clients)
        /\ pc = "fanin" => calls' = calls
        /\ (stdout' # stdout \/ stderr' # stderr) =>
              /\ pc = "report"
              /\ widx = Len(forder) + 1
              /\ Range(forder) = Range(clients)
        /\ pc \in {"report", "raised", "returned"} =>
              /\ calls' = calls
              /\ widx' = widx
              /\ futures' = futures
      ]_vars

\* The second line of the report is written after two waits, the first of
\* which timed out.
C19_Witness ==
    /\ pc = "report"
    /\ clients = <<1, 2>>
    /\ widx = 3
    /\ timedOut = {1}
    /\ rorder = <<>>
    /\ stderr # <<>>
    /\ stdout # <<>>

\* stream t is stream s followed by lines that are all for process p.
ExtendedFor(s, t, p) ==
    /\ Len(t) >= Len(s)
    /\ SubSeq(t, 1, Len(s)) = s
    /\ \A i \in (Len(s) + 1)..Len(t) : t[i][2] = p

\* C20: the report loop iterates over the processes that have a client, each
\* once; an iteration handles its process in one way, writing either its
\* report lines and no error line or one error line and no report line, and
\* lines are written by the iterations only; so when main returns after the
\* report loop, every process with a client has been handled once, a failed
\* call with one error line and no report line, a response with no error line.
C20_HandledOnceInOneWay ==
    [][ /\ (pc = "fanin" /\ pc' = "report") =>
              /\ Range(rorder') = Range(clients)
              /\ Len(rorder') = Len(clients)
        /\ (pc = "report" /\ rorder' # rorder) =>
              LET p == Head(rorder) IN
              /\ rorder' = Tail(rorder)
              /\ p \notin Range(rorder')
              /\ LinesOf(stdout, p) = <<>> /\ LinesOf(stderr, p) = <<>>
              /\ IF futures[p].st = "ok"
                 THEN stderr' = stderr /\ ExtendedFor(stdout, stdout', p)
                 ELSE /\ stdout' = stdout
                      /\ Len(stderr') = Len(stderr) + 1
                      /\ ExtendedFor(stderr, stderr', p)
        /\ (stdout' # stdout \/ stderr' # stderr) =>
              pc = "report" /\ rorder' # rorder
        /\ (pc = "report" /\ pc' = "returned") =>
              /\ rorder = <<>>
              /\ stdout' = stdout /\ stderr' = stderr
              /\ \A q \in Procs \ Range(clients) :
                    LinesOf(stdout, q) = <<>> /\ LinesOf(stderr, q) = <<>>
              /\ \A q \in Range(clients) :
                    IF futures[q].st = "ok"
                    THEN LinesOf(stderr, q) = <<>>
                    ELSE Len(LinesOf(stderr, q)) = 1 /\ LinesOf(stdout, q) = <<>>
      ]_vars

\* main has returned after handling a response with no name to report, for
\* which nothing is written, and a call that failed with an exception.
C20_Witness ==
    /\ pc = "returned" /\ ret = "None"
    /\ clients = <<1, 2>>
    /\ arg_filter # <<>>
    /\ futures[1].st = "ok" /\ LinesOf(stdout, 1) = <<>>
    /\ futures[2].st = "exc" /\ Len(LinesOf(stderr, 2)) = 1
    /\ stdout = <<>>

(***************************************************************************)
(* Properties of before_invocation                                         *)
(***************************************************************************)
\* The parameters the hook declares, the bound self of a method not counted.
DeclaredParams == hhook.req + (IF hhook.var THEN 1 ELSE 0)

\* The calls of one kind the current invocation has made.
CallsTo(kind) == SelectSeq(hlog, LAMBDA e : e[1] = kind)

\* C15: in every invocation the wrapper calls the hook once, before func; the
\* hook is called with func and the arguments of the invocation when it
\* declares a parameter and without arguments otherwise; func is called once
\* with the arguments of the invocation and its result is returned, and func
\* is not called when the hook raised.
C15_HookThenFunc ==
    /\ Len(CallsTo("hook")) <= 1 /\ Len(CallsTo("func")) <= 1
    /\ hlog # <<>> => hlog[1][1] = "hook"
    /\ \A i \in 1..Len(hlog) :
         hlog[i][1] = "hook" =>
            hlog[i][2] = IF DeclaredParams >= 1 THEN <<Func>> \o hargs ELSE <<>>
    /\ \A i \in 1..Len(hlog) : hlog[i][1] = "func" => hlog[i][2] = hargs
    /\ hpc = "returned" =>
         /\ Len(hlog) = 2
         /\ hret = [kind |-> "value", val |-> hfunc]
    /\ hret.kind \in {"hook raised", "hook TypeError"} => CallsTo("func") = <<>>

(***************************************************************************)
(* Properties of bind                                                      *)
(***************************************************************************)
\* C16: binding does not call func; a call of the wrapper calls func once,
\* with the bound arguments followed by the arguments of the call, and the
\* wrapper's outcome, a value or a raised error, is the outcome of that call.
C16_BoundThenCallArgs ==
    /\ bcount = 0 => bfcalls = 0
    /\ bfcalls = bcount
    /\ bpc = "called" =>
         /\ bfargs[1] = bbound \o bcall
         /\ bfargs[2] = (IF bcallkw = <<>> THEN bboundkw ELSE bcallkw)
         /\ bret = FuncResult(barity, bbound \o bcall, bfargs[2])
         /\ bret.kind = "value" => bret.val[1] = bbound \o bcall

C16_Witness ==
    /\ bpc = "called"
    /\ bbound = <<1>>
    /\ bcall = <<2>>
    /\ bret.kind = "value"
    /\ bret.val[1] = <<1, 2>>

====
